---------------------------- MODULE Spec2Model ----------------------------
(***************************************************************************)
(* Model of the hourly historic weather estimator:                         *)
(*   knmi.py              Knmi (KNMI dataset, station catalog, filtering,  *)
(*                        nearest stations)                                *)
(*   weather_estimates.py WeatherEstimates (per-hour planar estimate)      *)
(*                                                                         *)
(* Datetimes are records [year, month, day, hour] on whole hours of        *)
(* January 2020.  A KNMI observation row is keyed by (YYYYMMDD, HH) with   *)
(* HH in 1..24.  Station coordinates are whole degrees in -1..1, where the *)
(* haversine distance in whole metres orders the points exactly as the     *)
(* floating point distance of the code does (equal metres = equal floats). *)
(* The fitted value of a sample is a real-valued least-squares result and  *)
(* is not represented; a sample is (index, datetime, timestamp).           *)
(***************************************************************************)
EXTENDS Integers, Sequences, FiniteSets, TLC

VARIABLES
    start_date,   \* WeatherEstimates.start_date / Knmi.start_date
    end_date,     \* WeatherEstimates.end_date / Knmi.end_date
    raw,          \* the rows of the text the KNMI service answers with
    stations_txt, \* the rows of data/weather_data_knmi/stations.txt
    data,         \* Knmi._data (the same object as WeatherEstimates.data)
    stations,     \* Knmi._stations
    pc,           \* how far construction has come
    ret           \* outcome of the last public call

vars == <<start_date, end_date, raw, stations_txt, data, stations, pc, ret>>

-----------------------------------------------------------------------------
(* Bounds of the explored inputs *)

\* start and end lie within Span hours of a midnight
Span == 1
\* the station file lists at most MaxStations stations
MaxStations == 4

-----------------------------------------------------------------------------
(* Values *)

\* a missing value (pandas NaN), outside the range of the measurements
NaN == -9999
\* a station row before get_closest_stations has added the distance column
NoColumn == -1
\* default of the parameter N of get_closest_stations
DefaultN == 3
\* number of parameters of f_linear besides x_var
FitParams == 3

Required == <<"T", "FF", "Q">>

-----------------------------------------------------------------------------
(* datetime.datetime on whole hours of January 2020 *)

AbsHour(t) == t.day * 24 + t.hour

FromAbs(a) == [year |-> 2020, month |-> 1, day |-> a \div 24, hour |-> a % 24]

\* t + datetime.timedelta(hours=k)
PlusHours(t, k) == FromAbs(AbsHour(t) + k)

\* a <= b on datetimes
DtLe(a, b) ==
    \/ a.year < b.year
    \/ a.year = b.year /\ a.month < b.month
    \/ a.year = b.year /\ a.month = b.month /\ a.day < b.day
    \/ a.year = b.year /\ a.month = b.month /\ a.day = b.day /\ a.hour <= b.hour

\* int(f'{t.year}{t.month:02d}{t.day:02d}')
DateInt(t) == t.year * 10000 + t.month * 100 + t.day

\* t.timestamp(): seconds, counted from 2020-01-00 00:00 of the local clock
Timestamp(t) == AbsHour(t) * 3600

\* the midnight the explored datetimes surround: 2020-01-02 00:00
Midnight == [year |-> 2020, month |-> 1, day |-> 2, hour |-> 0]

Instants == {PlusHours(Midnight, k) : k \in (0 - Span)..Span}

-----------------------------------------------------------------------------
(* Inputs: the station file and the answer of the KNMI service *)

\* (LON(east), LAT(north)) of station i of the station file
StationPos ==
    << <<-1, 0>>, <<1, 0>>, <<0, 0>>, <<1, 1>>, <<1, -1>>, <<-1, 1>> >>

StationFile(n) ==
    [i \in 1..n |-> [STN |-> i, LON |-> StationPos[i][1], LAT |-> StationPos[i][2]]]

\* the (YYYYMMDD, HH) under which KNMI reports the hour ending at absolute
\* hour a: hour 24 of a day is 00:00 of the next day
KnmiKey(a) ==
    [YYYYMMDD |-> DateInt(FromAbs(a - 1)), HH |-> ((a - 1) % 24) + 1]

NumKeys == 2 * Span + 1

KeyAt(j) == KnmiKey(AbsHour(Midnight) - Span - 1 + j)

\* raw measurements: T and FF in tenths, Q in J/cm2
RawValue(stn, col) ==
    CASE col = "T" -> 100 + 10 * stn
      [] col = "FF" -> 30
      [] col = "Q" -> 9 * stn

\* what one station may lack at one hour: its row, or one value of its row
DefectKinds == {"absent", "T", "FF", "Q"}

NoDefect == [stn |-> 0, key |-> 0, kind |-> "none"]

\* one defect of one station, or an hour for which no listed station has a row
Defects(n) ==
    {[stn |-> s, key |-> j, kind |-> k] : s \in 1..n, j \in 1..NumKeys, k \in DefectKinds}
    \cup {[stn |-> 0, key |-> j, kind |-> "gap"] : j \in 1..NumKeys}

RawCell(stn, j, defect) ==
    LET hit == defect.stn = stn /\ defect.key = j
        val(col) == IF hit /\ defect.kind = col THEN NaN ELSE RawValue(stn, col)
    IN  [STN |-> stn, YYYYMMDD |-> KeyAt(j).YYYYMMDD, HH |-> KeyAt(j).HH,
         T |-> val("T"), FF |-> val("FF"), Q |-> val("Q")]

\* rows of the answer, station by station, hour by hour, less the defect
RawRows(n, defect) ==
    LET cells == [i \in 1..(n * NumKeys) |->
                     RawCell(((i - 1) \div NumKeys) + 1, ((i - 1) % NumKeys) + 1, defect)]
        absent(i) == /\ defect.key = ((i - 1) % NumKeys) + 1
                     /\ \/ defect.kind = "gap"
                        \/ /\ defect.kind = "absent"
                           /\ defect.stn = ((i - 1) \div NumKeys) + 1
        kept == SelectSeq([i \in 1..(n * NumKeys) |-> i], LAMBDA i : ~absent(i))
    IN  [i \in 1..Len(kept) |-> cells[kept[i]]]

-----------------------------------------------------------------------------
(* pandas helpers *)

\* read_csv: the rows get the index labels 0, 1, 2, ...
ReadCsv(rows) ==
    [i \in 1..Len(rows) |->
        [idx |-> i - 1, STN |-> rows[i].STN, YYYYMMDD |-> rows[i].YYYYMMDD,
         HH |-> rows[i].HH, T |-> rows[i].T, FF |-> rows[i].FF, Q |-> rows[i].Q]]

Col(row, col) ==
    CASE col = "T" -> row.T
      [] col = "FF" -> row.FF
      [] col = "Q" -> row.Q

Range(s) == {s[i] : i \in 1..Len(s)}

-----------------------------------------------------------------------------
(* Knmi._set_knmi_data *)

\* the row selection of dataframe.loc[...]
InSelection(row, start_date_int, end_date_int, starttime, endtime) ==
    \/ row.YYYYMMDD > start_date_int /\ row.YYYYMMDD < end_date_int
    \/ row.YYYYMMDD = start_date_int /\ row.HH >= starttime
    \/ row.YYYYMMDD = end_date_int /\ row.HH <= endtime

\* column / 10
Tenth(v) == IF v = NaN THEN NaN ELSE v \div 10

\* round(column * (25 / 9), 5)
Irradiation(v) == IF v = NaN THEN NaN ELSE (v * 25) \div 9

ConvertRow(row) ==
    [row EXCEPT !.T = Tenth(row.T), !.FF = Tenth(row.FF), !.Q = Irradiation(row.Q)]

\* clock hour 0 is hour 24 of the day before
ShiftedDate(t) == IF t.hour = 0 THEN PlusHours(t, -1) ELSE t

ShiftedHour(t) == IF t.hour = 0 THEN 24 ELSE t.hour

SelectedData(rows, begin, end) ==
    LET b == ShiftedDate(begin)
        e == ShiftedDate(end)
        sel == SelectSeq(ReadCsv(rows),
                   LAMBDA row : InSelection(row, DateInt(b), DateInt(e),
                                            ShiftedHour(begin), ShiftedHour(end)))
    IN  [i \in 1..Len(sel) |-> ConvertRow(sel[i])]

\* WeatherEstimates.__init__ refuses a start after the end
RejectDates ==
    /\ pc = "new"
    /\ ~DtLe(start_date, end_date)
    /\ pc' = "rejected"
    /\ UNCHANGED <<start_date, end_date, raw, stations_txt, data, stations, ret>>

SetKnmiData ==
    /\ pc = "new"
    /\ DtLe(start_date, end_date)
    /\ data' = SelectedData(raw, start_date, end_date)
    /\ pc' = "data"
    /\ UNCHANGED <<start_date, end_date, raw, stations_txt, stations, ret>>

-----------------------------------------------------------------------------
(* Knmi._set_stationinfo *)

ParsedStations(txt) ==
    [i \in 1..Len(txt) |->
        [STN |-> txt[i].STN, LON |-> txt[i].LON, LAT |-> txt[i].LAT,
         dtype |-> "float64", distance |-> NoColumn]]

SetStationInfo ==
    /\ pc = "data"
    /\ stations' = ParsedStations(stations_txt)
    /\ pc' = "stations"
    /\ UNCHANGED <<start_date, end_date, raw, stations_txt, data, ret>>

-----------------------------------------------------------------------------
(* Knmi._remove_nan_values *)

\* variant: only the temperature column is inspected
HasNullOnlyT(rows) == \E i \in 1..Len(rows) : rows[i].T = NaN

\* variant: the irradiation column is not inspected
HasNullNoQ(rows) == \E i \in 1..Len(rows) : rows[i].T = NaN \/ rows[i].FF = NaN

\* temp.isnull().values.any() over the columns T, FF, Q
HasNull(rows) ==
    \E i \in 1..Len(rows) : \E c \in 1..Len(Required) : Col(rows[i], Required[c]) = NaN

\* self._data.loc[self._data['STN'] == stn]
RowsOf(dt, stn) == SelectSeq(dt, LAMBDA row : row.STN = stn)

\* self._stations.drop(stn, inplace=True)
DropStation(st, stn) == SelectSeq(st, LAMBDA s : s.STN # stn)

\* variant: only the rows of stn that miss a value are dropped
DropNullRows(dt, stn) ==
    SelectSeq(dt, LAMBDA row : ~(row.STN = stn /\ HasNull(<<row>>)))

\* self._data.drop(index labels of the rows of stn, inplace=True)
DropRows(dt, stn) ==
    LET labels == {row.idx : row \in Range(RowsOf(dt, stn))}
    IN  SelectSeq(dt, LAMBDA row : row.idx \notin labels)

\* the loop over iterrows(): the labels iterated are those the catalog had
\* when the loop began
RECURSIVE RemoveLoop(_, _, _)
RemoveLoop(labels, st, dt) ==
    IF labels = <<>> THEN [stations |-> st, data |-> dt]
    ELSE LET stn == Head(labels)
         IN  IF HasNull(RowsOf(dt, stn))
             THEN RemoveLoop(Tail(labels), DropStation(st, stn), DropRows(dt, stn))
             ELSE RemoveLoop(Tail(labels), st, dt)

RemoveNanValues ==
    /\ pc = "stations"
    /\ LET out == RemoveLoop([i \in 1..Len(stations) |-> stations[i].STN], stations, data)
       IN  /\ stations' = out.stations
           /\ data' = out.data
    /\ pc' = "ready"
    /\ UNCHANGED <<start_date, end_date, raw, stations_txt, ret>>

-----------------------------------------------------------------------------
(* Knmi._calculate_distance *)

\* radius * haversine in whole metres, by (lat1, lat2, |lon2 - lon1|) in degrees
HaversineMetres ==
    << << <<0, 111212, 222425>>, <<111229, 157298, 248707>>, <<222459, 248714, 314597>> >>,
       << <<111229, 157298, 248707>>, <<0, 111229, 222459>>, <<111229, 157298, 248707>> >>,
       << <<222459, 248714, 314597>>, <<111229, 157298, 248707>>, <<0, 111212, 222425>> >> >>

Abs(x) == IF x < 0 THEN 0 - x ELSE x

CalculateDistance(lat1, lon1, lat2, lon2) ==
    HaversineMetres[lat1 + 2][lat2 + 2][Abs(lon2 - lon1) + 1]

-----------------------------------------------------------------------------
(* Knmi.get_closest_stations *)

\* pd.to_numeric(column, downcast='float') on LAT(north) and LON(east):
\* whole degrees keep their value, the columns become float32
Downcast(st) == [i \in 1..Len(st) |-> [st[i] EXCEPT !.dtype = "float32"]]

\* dataframe['distance'] = dataframe.apply(...)
WithDistance(st, lon, lat) ==
    [i \in 1..Len(st) |->
        [st[i] EXCEPT !.distance = CalculateDistance(lat, lon, st[i].LAT, st[i].LON)]]

\* the ways of putting row x into the ascending sequence t
InsertSorted(x, t) ==
    {SubSeq(t, 1, i) \o <<x>> \o SubSeq(t, i + 1, Len(t)) :
        i \in {j \in 0..Len(t) :
                  /\ \A k \in 1..j : t[k].distance <= x.distance
                  /\ \A k \in (j + 1)..Len(t) : x.distance <= t[k].distance}}

\* sort_values('distance'): the default kind is quicksort, which is not
\* stable, so rows of equal distance may come out in any order
RECURSIVE SortValues(_)
SortValues(st) ==
    IF st = <<>> THEN {<<>>}
    ELSE UNION {InsertSorted(Head(st), t) : t \in SortValues(Tail(st))}

\* dataframe.head(N)
HeadN(st, N) == SubSeq(st, 1, IF N < Len(st) THEN N ELSE Len(st))

\* The outcomes of one call: the catalog as the call leaves it and the frame
\* it returns.  The code has no case for an empty catalog: there
\* dataframe.apply(..., axis=1) yields, depending on the pandas release, an
\* empty Series (an empty frame is returned) or a frame that cannot be
\* assigned to one column (ValueError).
ClosestStations(st, lon, lat, N) ==
    IF st = <<>>
    THEN {[status |-> "ok", stations |-> st, val |-> <<>>],
          [status |-> "ValueError", stations |-> st, val |-> <<>>]}
    ELSE {[status |-> "ok", stations |-> s, val |-> HeadN(s, N)] :
             s \in SortValues(WithDistance(Downcast(st), lon, lat))}

QueryPoints == {<<-1, 0>>, <<0, 1>>, <<1, 1>>}

GetClosestStations ==
    /\ pc = "ready"
    /\ \E q \in QueryPoints, N \in 1..DefaultN :
         \E out \in ClosestStations(stations, q[1], q[2], N) :
            /\ stations' = out.stations
            /\ ret' = [op |-> "nearest", lon |-> q[1], lat |-> q[2], N |-> N,
                       status |-> out.status, val |-> out.val]
    /\ UNCHANGED <<start_date, end_date, raw, stations_txt, data, pc>>

-----------------------------------------------------------------------------
(* WeatherEstimates._get_value *)

NoDate == [year |-> 0, month |-> 0, day |-> 0, hour |-> 0]

\* self.data[(HH == hour) & (YYYYMMDD == int(date_string))]
DateHourRows(dt, used_date, hour) ==
    SelectSeq(dt, LAMBDA row : row.HH = hour /\ row.YYYYMMDD = DateInt(used_date))

\* nearest_stations.join(df_datehour, how='inner'): per nearest station, in
\* their order, its rows of that hour with the station's columns
RECURSIVE InnerJoin(_, _)
InnerJoin(nearest, dfh) ==
    IF nearest = <<>> THEN <<>>
    ELSE LET s == Head(nearest)
             mine == RowsOf(dfh, s.STN)
         IN  [i \in 1..Len(mine) |->
                 [STN |-> s.STN, LON |-> s.LON, LAT |-> s.LAT,
                  T |-> mine[i].T, FF |-> mine[i].FF, Q |-> mine[i].Q]]
             \o InnerJoin(Tail(nearest), dfh)

\* scipy.optimize.curve_fit(f_linear, x_val, y_val): non-finite data are
\* refused (ValueError), fewer points than parameters are refused by leastsq
\* (TypeError); any other data, collinear or not, return some parameters
CurveFit(fit, identifier) ==
    IF \E i \in 1..Len(fit) : Col(fit[i], identifier) = NaN THEN "ValueError"
    ELSE IF FitParams > Len(fit) THEN "TypeError"
    ELSE "ok"

\* variant: the loop stops before the end
InRangeStrict(cur, end) == DtLe(cur, end) /\ cur # end

\* the condition of the while loop
InRange(cur, end) == DtLe(cur, end)

SamplesOf(lst) ==
    [i \in 1..Len(lst) |->
        [index |-> i - 1, datetime |-> lst[i], timestamp |-> Timestamp(lst[i])]]

\* variant: the hours computed before the failure are handed back
RaisePartial(error, at, lst) ==
    [status |-> error, at |-> at, samples |-> SamplesOf(lst)]

\* an exception leaves _get_value: lst is lost, nothing is returned
Raise(error, at, lst) == [status |-> error, at |-> at, samples |-> <<>>]

\* the while loop from start_date = cur on, lst holding the [value, datetime]
\* pairs appended so far; then the frame built from lst
RECURSIVE HourLoop(_, _, _, _, _, _)
HourLoop(cur, end, lst, nearest, dt, identifier) ==
    IF ~InRange(cur, end)
    THEN [status |-> "ok", at |-> NoDate, samples |-> SamplesOf(lst)]
    ELSE LET used_date == ShiftedDate(cur)
             hour == ShiftedHour(cur)
             df_for_fit == InnerJoin(nearest, DateHourRows(dt, used_date, hour))
             fitted == CurveFit(df_for_fit, identifier)
         IN  IF Len(df_for_fit) = 0 THEN Raise("NoData", used_date, lst)
             ELSE IF fitted # "ok" THEN Raise(fitted, used_date, lst)
             ELSE HourLoop(PlusHours(cur, 1), end, Append(lst, cur), nearest, dt, identifier)

GetValue ==
    /\ pc = "ready"
    /\ \E q \in QueryPoints, identifier \in Range(Required) :
         \E out \in ClosestStations(stations, q[1], q[2], DefaultN) :
            /\ stations' = out.stations
            /\ LET res == IF out.status # "ok"
                          THEN Raise(out.status, NoDate, <<>>)
                          ELSE HourLoop(start_date, end_date, <<>>, out.val, data, identifier)
               IN  ret' = [op |-> "get_value", lon |-> q[1], lat |-> q[2],
                           nearest |-> out.val, status |-> res.status,
                           at |-> res.at, samples |-> res.samples]
    /\ UNCHANGED <<start_date, end_date, raw, stations_txt, data, pc>>

-----------------------------------------------------------------------------
NoRet == [op |-> "none"]

Init ==
    /\ pc = "new"
    /\ start_date \in Instants
    /\ end_date \in Instants
    /\ \E n \in 0..MaxStations :
           /\ stations_txt = StationFile(n)
           /\ \E defect \in Defects(n) \cup {NoDefect} : raw = RawRows(n, defect)
    /\ data = <<>>
    /\ stations = <<>>
    /\ ret = NoRet

Next ==
    \/ RejectDates
    \/ SetKnmiData
    \/ SetStationInfo
    \/ RemoveNanValues
    \/ GetClosestStations
    \/ GetValue

Spec == Init /\ [][Next]_vars
-----------------------------------------------------------------------------
(* Vocabulary of the properties, stated apart from the operators above *)

Complete(row) == row.T # NaN /\ row.FF # NaN /\ row.Q # NaN

Ids(st) == {s.STN : s \in Range(st)}

\* absolute hour that the key (YYYYMMDD, HH) of a row stands for
AbsOfKey(row) == (row.YYYYMMDD % 100) * 24 + row.HH

\* the (date, hour) pairs that occur in a dataset
HoursOf(dt) == {AbsOfKey(row) : row \in Range(dt)}

RowsAt(dt, stn, a) == {row \in Range(dt) : row.STN = stn /\ AbsOfKey(row) = a}

\* the hours start, start + 1h, ... up to end
QueriedHours == AbsHour(start_date)..AbsHour(end_date)

\* the dataset and the catalog as the constructor builds them
SelectedNow == SelectedData(raw, start_date, end_date)

Constructed == RemoveLoop([i \in 1..Len(stations_txt) |-> stations_txt[i].STN],
                          ParsedStations(stations_txt), SelectedNow)

\* rows of the given stations at absolute hour a
Matched(nearest, a) == UNION {RowsAt(data, s.STN, a) : s \in Range(nearest)}

Cross(a, b, c) ==
    (b.LON - a.LON) * (c.LAT - a.LAT) - (b.LAT - a.LAT) * (c.LON - a.LON)

\* the stations of the rows matched at hour a span a plane
Spanning(nearest, a) ==
    LET pts == {s \in Range(nearest) : RowsAt(data, s.STN, a) # {}}
    IN  \E x \in pts, y \in pts, z \in pts : Cross(x, y, z) # 0

-----------------------------------------------------------------------------
(* C1: once the completeness filtering has run, no observation row of a     *)
(* station still in the catalog misses a value of T, FF or Q.               *)
C1_NoMissingValueOfRetained ==
    pc = "ready" =>
        \A s \in Range(stations) : \A row \in Range(data) :
            row.STN = s.STN => \A c \in 1..Len(Required) : Col(row, Required[c]) # NaN

\* filtering removed a station for a missing value and kept another one
\* with its rows
C1_Witness ==
    /\ pc = "ready"
    /\ \E row \in Range(SelectedNow) : ~Complete(row)
    /\ Len(stations) < Len(stations_txt)
    /\ \E s \in Range(stations) : RowsOf(data, s.STN) # <<>>

(* C2 as stated: after filtering every retained station has a complete row  *)
(* at every (date, hour) that occurs in the dataset.                        *)
C2_RetainedCoverEveryHour ==
    pc = "ready" =>
        \A s \in Range(stations) : \A a \in HoursOf(data) :
            \E row \in RowsAt(data, s.STN, a) : Complete(row)

(* C2 amended: after filtering every retained station has a non-missing     *)
(* value of every required variable at every (date, hour) of the dataset    *)
(* at which it has a row; it need not have a row at every hour.             *)
C2_RetainedCompleteWhereReported ==
    pc = "ready" =>
        \A s \in Range(stations) : \A a \in HoursOf(data) :
            \A row \in RowsAt(data, s.STN, a) : Complete(row)

\* a retained station reports some hours of the dataset and lacks another
C2_Witness ==
    /\ pc = "ready"
    /\ \E s \in Range(stations) :
          /\ \E a \in HoursOf(data) : RowsAt(data, s.STN, a) = {}
          /\ \E a \in HoursOf(data) : RowsAt(data, s.STN, a) # {}

(* C3: the filtering step removes from the catalog exactly the stations     *)
(* that have a row with a missing required value, removes all rows of those *)
(* stations, and leaves every other station and row in place and unchanged. *)
C3_WholeStationRemovalOnly ==
    [][ (pc = "stations" /\ pc' = "ready") =>
          LET gone == {s.STN : s \in {t \in Range(stations) :
                          \E row \in Range(data) : row.STN = t.STN /\ ~Complete(row)}}
          IN  /\ stations' = SelectSeq(stations, LAMBDA s : s.STN \notin gone)
              /\ data' = SelectSeq(data, LAMBDA row : row.STN \notin gone) ]_vars

\* filtering removed a station that had complete rows besides the incomplete
\* one, and kept another station
C3_Witness ==
    /\ pc = "ready"
    /\ stations # <<>>
    /\ \E t \in Range(ParsedStations(stations_txt)) :
          /\ t \notin Range(stations)
          /\ \E row \in Range(SelectedNow) : row.STN = t.STN /\ Complete(row)
          /\ \A row \in Range(data) : row.STN # t.STN

(* C4: a successful estimate returns one sample per hour from start to end  *)
(* inclusive, in increasing order one hour apart, numbered from 0.          *)
C4_OneSamplePerHour ==
    (ret.op = "get_value" /\ ret.status = "ok") =>
        /\ Len(ret.samples) = AbsHour(end_date) - AbsHour(start_date) + 1
        /\ \A i \in 1..Len(ret.samples) :
              /\ ret.samples[i].index = i - 1
              /\ AbsHour(ret.samples[i].datetime) = AbsHour(start_date) + (i - 1)
              /\ ret.samples[i].timestamp = Timestamp(ret.samples[i].datetime)
        /\ \A i \in 1..(Len(ret.samples) - 1) :
              ret.samples[i + 1].timestamp = ret.samples[i].timestamp + 3600

\* a successful estimate over more than one hour, across midnight
C4_Witness ==
    /\ ret.op = "get_value"
    /\ ret.status = "ok"
    /\ Len(ret.samples) >= 3
    /\ \E i \in 1..Len(ret.samples) : ret.samples[i].datetime.hour = 0

(* C5: if at some queried hour no row of the selected nearest stations      *)
(* matches, the estimate fails and returns no sample at all; when the hours *)
(* before it were fitted, the failure is the no-data error of that hour.    *)
C5_GapFailsWholeQuery ==
    ret.op = "get_value" =>
        \A a \in QueriedHours :
            Matched(ret.nearest, a) = {} =>
                /\ ret.status # "ok"
                /\ ret.samples = <<>>
                /\ ( /\ ret.status # "ValueError"
                     /\ \A b \in AbsHour(start_date)..(a - 1) :
                           Cardinality(Matched(ret.nearest, b)) >= FitParams )
                   => /\ ret.status = "NoData"
                      /\ DateInt(ret.at) = KnmiKey(a).YYYYMMDD

\* the failure came at a later hour, after an earlier hour had been fitted
C5_Witness ==
    /\ ret.op = "get_value"
    /\ ret.status = "NoData"
    /\ ret.samples = <<>>
    /\ ret.nearest # <<>>
    /\ \E a \in QueriedHours :
          /\ a > AbsHour(start_date)
          /\ Matched(ret.nearest, a) = {}
          /\ Cardinality(Matched(ret.nearest, AbsHour(start_date))) >= FitParams

(* C6: nearest returns the min(k, catalog size) closest stations, ascending *)
(* by distance, stations at equal distance in the order of the catalog as   *)
(* it was built, whatever calls were made before.                           *)
C6_NearestInCatalogOrder ==
    (ret.op = "nearest" /\ ret.status = "ok") =>
        LET d(s) == CalculateDistance(ret.lat, ret.lon, s.LAT, s.LON)
            place(s) == CHOOSE i \in 1..Len(Constructed.stations) :
                            Constructed.stations[i].STN = s.STN
            before(x, y) == d(x) < d(y) \/ (d(x) = d(y) /\ place(x) < place(y))
        IN  /\ Len(ret.val) = IF ret.N < Len(stations) THEN ret.N ELSE Len(stations)
            /\ \A i, j \in 1..Len(ret.val) : i < j => before(ret.val[i], ret.val[j])
            /\ \A s \in Range(stations) :
                  s.STN \notin Ids(ret.val) => \A v \in Range(ret.val) : before(v, s)

(* C7: nearest and estimate leave the station catalog (its stations, their  *)
(* order and fields) and the observation rows as filtering left them.       *)
C7_QueriesLeaveCatalogAndData ==
    pc = "ready" => stations = Constructed.stations /\ data = Constructed.data

(* C8: with an empty catalog nearest fails instead of returning an empty    *)
(* sequence.                                                                *)
C8_EmptyCatalogFails ==
    (ret.op = "nearest" /\ stations = <<>>) => ret.status # "ok"

(* C9: at every hour of a query, fewer than 3 non-collinear matched rows    *)
(* (but at least one) make the fit fail, so a query that returns a series   *)
(* had 3 non-collinear rows at every hour.                                  *)
C9_UnderdeterminedFitFails ==
    ret.op = "get_value" =>
        \A a \in QueriedHours :
            (Matched(ret.nearest, a) # {} /\ ~Spanning(ret.nearest, a)) =>
                ret.status # "ok" /\ ret.samples = <<>>

(* C10: the dataset kept by _set_knmi_data holds exactly the raw records    *)
(* whose (date, hour) lies in [start, end], hour 24 of day D being 00:00 of *)
(* day D+1.                                                                 *)
C10_KeptExactlyTheWindow ==
    pc = "data" =>
        {row.idx : row \in Range(data)}
            = {row.idx : row \in {r \in Range(ReadCsv(raw)) : AbsOfKey(r) \in QueriedHours}}
=============================================================================
